---- MODULE Spec2Model ----
(***************************************************************************)
(* State-machine model of the optimizers AdaBound (optimizers/adabound.py),*)
(* AdamP (optimizers/adamp.py) and AdaMod (optimizers/parallel/adamod.py). *)
(* One behaviour is the life of one optimizer instance: construction,      *)
(* build, update_step calls, learning-rate changes, __setstate__.          *)
(*                                                                         *)
(* Numbers: a float x is the integer x * Scale (fixed point), products and *)
(* quotients round towards minus infinity, sqrt rounds down.  A tensor is  *)
(* the row-major sequence of its elements together with its shape.  The    *)
(* slot lists hold the slot variables themselves: assign() on an element   *)
(* changes the element of the list (also for AdaMod's manager lists).      *)
(***************************************************************************)
EXTENDS Integers, Sequences, FiniteSets, TLC

\* ------------------------------------------------------------------ bounds
MaxVars == 2
MaxUpdates == 2
MaxWorkers == 2

\* ------------------------------------------------------- number arithmetic
Scale == 64

Mul(a, b) == (a * b) \div Scale
Div(a, b) == (a * Scale) \div b
Abs(a) == IF a < 0 THEN -a ELSE a
Min(a, b) == IF a < b THEN a ELSE b
Max(a, b) == IF a > b THEN a ELSE b

\* the largest r in lo..hi with r * r <= n
RECURSIVE SqrtBetween(_, _, _)
SqrtBetween(n, lo, hi) ==
    IF lo = hi THEN lo
    ELSE LET mid == (lo + hi + 1) \div 2
         IN IF mid * mid <= n THEN SqrtBetween(n, mid, hi)
            ELSE SqrtBetween(n, lo, mid - 1)
\* sqrt of the fixed-point number a: floor(sqrt(a * Scale))
Sqrt(a) == SqrtBetween(a * Scale, 0, Min(a * Scale, 4096))

RECURSIVE Pow(_, _)
Pow(b, n) == IF n = 0 THEN Scale ELSE Mul(b, Pow(b, n - 1))

RECURSIVE SumSeq(_)
SumSeq(s) == IF s = <<>> THEN 0 ELSE Head(s) + SumSeq(Tail(s))

RECURSIVE MaxSeq(_)
MaxSeq(s) == IF Len(s) = 1 THEN s[1] ELSE Max(Head(s), MaxSeq(Tail(s)))

\* --------------------------------------------------------- hyperparameters
beta1 == Scale \div 2
beta2 == (3 * Scale) \div 4
beta3 == (3 * Scale) \div 4
epsilon == Scale \div 8
final_lr == Scale \div 2
gamma == Scale \div 2
delta == Scale \div 2
wd_ratio == Scale \div 4
WeightDecays == {0, Scale \div 4}
\* the values the host may give the learning rate
LearningRates == {Scale \div 2, Scale \div 4}

\* ------------------------------------------------- parameters and gradients
\* The host's trainable parameters: odd ones are vectors, even ones matrices.
Shape(i) == IF i % 2 = 1 THEN <<2>> ELSE <<2, 2>>
Size(i) == IF i % 2 = 1 THEN 2 ELSE 4
InitialValue(i) == IF i % 2 = 1 THEN <<Scale, 2 * Scale>>
                   ELSE <<Scale, 0, 0, Scale>>
Gradients(i) == IF i % 2 = 1 THEN {<<Scale, 0>>, <<-Scale, 2 * Scale>>}
                ELSE {<<0, Scale, Scale, 0>>, <<Scale, 0, 0, -Scale>>,
                      <<Scale, 0, 0, Scale>>}
Zeros(n) == [k \in 1..n |-> 0]

VARIABLES kind, built, amsbound, weight_decay, nesterov, learning_rate,
          base_lr, variables, exp_avg, exp_avg_sq, max_exp_avg_sq,
          exp_avg_lr, step, iterations, manager, last,
          lr_at_build, calls, pass, pc, tmp

vars == <<kind, built, amsbound, weight_decay, nesterov, learning_rate,
          base_lr, variables, exp_avg, exp_avg_sq, max_exp_avg_sq,
          exp_avg_lr, step, iterations, manager, last,
          lr_at_build, calls, pass, pc, tmp>>

\* ------------------------------------------------------- shared arithmetic
\* beta * old + (1 - beta) * new
Ema(beta, old, new) == Mul(beta, old) + Mul(Scale - beta, new)
bias_correction(beta, s) == Scale - Pow(beta, s)
\* tf.clip_by_value
clip_by_value(x, lo, hi) == Min(Max(x, lo), hi)

\* --------------------------------------------------------------- AdaBound
\* final_lr = self.final_lr * lr / self.base_lr
FinalLr(lr, base) == Div(Mul(final_lr, lr), base)
\* (variant: the correction added instead of subtracted)
LowerBoundBad(f, s) == Mul(f, Scale + Div(Scale, gamma * s + Scale))
LowerBound(f, s) == Mul(f, Scale - Div(Scale, gamma * s + Scale))
UpperBound(f, s) == Mul(f, Scale + Div(Scale, gamma * s))

\* The numerical part of AdaBound.update_step for one parameter: g gradient,
\* p parameter, lr learning rate, base the value read through self.base_lr,
\* ea/es/mx the parameter's accumulators, s the step used (already
\* incremented), ams the amsbound flag, wd the weight decay.
AdaBoundRule(g, p, lr, base, ea, es, mx, s, ams, wd) ==
    LET n == Len(p)
        g2 == IF wd # 0 THEN [k \in 1..n |-> g[k] + Mul(wd, p[k])] ELSE g
        ea2 == [k \in 1..n |-> Ema(beta1, ea[k], g2[k])]
        es2 == [k \in 1..n |-> Ema(beta2, es[k], Mul(g2[k], g2[k]))]
        mx2 == IF ams THEN [k \in 1..n |-> Max(mx[k], es2[k])] ELSE mx
        rad == IF ams THEN mx2 ELSE es2
        denom == [k \in 1..n |-> Sqrt(rad[k]) + epsilon]
        bc1 == bias_correction(beta1, s)
        bc2 == bias_correction(beta2, s)
        ss == Div(Mul(lr, Sqrt(bc2)), bc1)
        f == FinalLr(lr, base)
        lo == LowerBound(f, s)
        hi == UpperBound(f, s)
        sz == [k \in 1..n |->
                 Mul(clip_by_value(Div(ss, denom[k]), lo, hi), ea2[k])]
    IN [exp_avg |-> ea2, exp_avg_sq |-> es2, max_exp_avg_sq |-> mx2,
        variable |-> [k \in 1..n |-> p[k] - sz[k]],
        radicand |-> rad, final_lr |-> f, lower |-> lo, upper |-> hi]

\* ----------------------------------------------------------------- AdaMod
AdaModRule(g, p, lr, ea, es, el, s, wd) ==
    LET n == Len(p)
        ea2 == [k \in 1..n |-> Ema(beta1, ea[k], g[k])]
        es2 == [k \in 1..n |-> Ema(beta2, es[k], Mul(g[k], g[k]))]
        denom == [k \in 1..n |-> Sqrt(es2[k]) + epsilon]
        bc1 == bias_correction(beta1, s)
        bc2 == bias_correction(beta2, s)
        ss == Div(Mul(lr, Sqrt(bc2)), bc1)
        p1 == IF wd # 0 THEN [k \in 1..n |-> p[k] + Mul(Mul(-wd, lr), p[k])]
              ELSE p
        raw == [k \in 1..n |-> Div(ss, denom[k])]
        el2 == [k \in 1..n |-> Ema(beta3, el[k], raw[k])]
        sz == [k \in 1..n |-> Mul(Min(raw[k], el2[k]), ea2[k])]
    IN [exp_avg |-> ea2, exp_avg_sq |-> es2, exp_avg_lr |-> el2,
        variable |-> [k \in 1..n |-> p1[k] - sz[k]]]

\* ------------------------------------------------------------------ AdamP
\* A view of a tensor of n elements and shape sh is <<rows, width>>.
_channel_view(sh, n) == <<sh[1], n \div sh[1]>>
_layer_view(sh, n) == <<1, n>>
ViewDims(view, sh, n) == IF view = "channel" THEN _channel_view(sh, n)
                         ELSE _layer_view(sh, n)
RowOf(k, width) == ((k - 1) \div width) + 1
RowSum(x, r, width) == SumSeq([j \in 1..width |-> x[(r - 1) * width + j]])

\* clip(x, min): the upper limit is the dtype's largest value, above every
\* number of the model.
clip(x, min) == Max(x, min)

\* cosine_similarity along axis 1 of two views: one value per row
cosine_similarity(x1, x2, dims, eps) ==
    [r \in 1..dims[1] |->
        LET w12 == RowSum([k \in 1..Len(x1) |-> Mul(x1[k], x2[k])], r, dims[2])
            w1 == RowSum([k \in 1..Len(x1) |-> Mul(x1[k], x1[k])], r, dims[2])
            w2 == RowSum([k \in 1..Len(x1) |-> Mul(x2[k], x2[k])], r, dims[2])
            n12 == Sqrt(clip(Mul(w1, w2), Mul(eps, eps)))
        IN Div(w12, n12)]

\* the test of line 57 for one view
ViewTriggers(view, p, grad, sh, dlt, eps) ==
    LET dims == ViewDims(view, sh, Len(p))
        cs == cosine_similarity(grad, p, dims, eps)
        cosine_sim == [r \in 1..dims[1] |-> Abs(cs[r])]
    IN MaxSeq(cosine_sim) < Div(dlt, Sqrt(dims[2] * Scale))

\* lines 58-59: perturb without its component along the rows of p
RemoveParallel(view, p, perturb, sh, eps) ==
    LET n == Len(p)
        dims == ViewDims(view, sh, n)
        norm == [r \in 1..dims[1] |->
                   Sqrt(RowSum([k \in 1..n |-> Mul(p[k], p[k])], r, dims[2]))
                   + eps]
        p_n == [k \in 1..n |-> Div(p[k], norm[RowOf(k, dims[2])])]
        dot == [r \in 1..dims[1] |->
                  RowSum([k \in 1..n |-> Mul(p_n[k], perturb[k])], r, dims[2])]
    IN [k \in 1..n |-> perturb[k] - Mul(p_n[k], dot[RowOf(k, dims[2])])]

RECURSIVE ProjectionLoop(_, _, _, _, _, _, _, _)
ProjectionLoop(views, p, grad, perturb, sh, dlt, wdr, eps) ==
    IF views = <<>> THEN [perturb |-> perturb, wd |-> Scale, view |-> "none"]
    ELSE IF ViewTriggers(Head(views), p, grad, sh, dlt, eps)
         THEN [perturb |-> RemoveParallel(Head(views), p, perturb, sh, eps),
               wd |-> wdr, view |-> Head(views)]
         ELSE ProjectionLoop(Tail(views), p, grad, perturb, sh, dlt, wdr, eps)

\* (variant: the layer view tried before the channel view)
projectionLayerFirst(p, grad, perturb, sh, dlt, wdr, eps) ==
    ProjectionLoop(<<"layer", "channel">>, p, grad, perturb, sh, dlt, wdr, eps)
projection(p, grad, perturb, sh, dlt, wdr, eps) ==
    ProjectionLoop(<<"channel", "layer">>, p, grad, perturb, sh, dlt, wdr, eps)

AdamPRule(g, p, sh, lr, ea, es, s, nest, wd) ==
    LET n == Len(p)
        bc1 == bias_correction(beta1, s)
        bc2 == bias_correction(beta2, s)
        ea2 == [k \in 1..n |-> Mul(ea[k], beta1) + Mul(g[k], Scale - beta1)]
        es2 == [k \in 1..n |->
                  Mul(es[k], beta2) + Mul(Mul(g[k], g[k]), Scale - beta2)]
        denom == [k \in 1..n |-> Div(Sqrt(es2[k]), Sqrt(bc2)) + epsilon]
        step_size == Div(lr, bc1)
        perturb == IF nest
                   THEN [k \in 1..n |->
                           Div(Mul(beta1, ea2[k]) + Mul(Scale - beta1, g[k]),
                               denom[k])]
                   ELSE [k \in 1..n |-> Div(ea2[k], denom[k])]
        pr == IF Len(sh) > 1
              THEN projection(p, g, perturb, sh, delta, wd_ratio, epsilon)
              ELSE [perturb |-> perturb, wd |-> Scale, view |-> "none"]
        p1 == IF wd > 0
              THEN [k \in 1..n |->
                      Mul(p[k], Scale - Mul(Mul(lr, wd), pr.wd))]
              ELSE p
    IN [exp_avg |-> ea2, exp_avg_sq |-> es2,
        variable |-> [k \in 1..n |-> p1[k] + Mul(pr.perturb[k], -step_size)],
        perturb_in |-> perturb, perturb |-> pr.perturb, wd_ratio |-> pr.wd,
        view |-> pr.view]

\* --------------------------------------------------------------- the state
\* kind            the optimizer class of this instance
\* built           self.built
\* learning_rate   the value held by the object self._learning_rate
\* base_lr         what self.base_lr is bound to: nothing before build,
\*                 afterwards the object self._learning_rate (line 64 stores
\*                 the object, not a copy of its value)
\* variables       the values of the parameters of var_list
\* step            the list self.step (AdaBound, AdamP) or the integer
\*                 self.step (AdaMod)
\* iterations      self.iterations, the host's count of training iterations
\* manager         identity of the mp.Manager held by self.manager (0: none)
\* last            the most recent call and the locals it computed
\* lr_at_build, calls, pass   history: the learning rate when build ran, the
\*                 successful update_step calls per parameter, the calls of
\*                 the host's current training iteration
\* pc, tmp         position and locals of concurrently running update_step
\*                 calls (SpecConc only)
Kinds == {"AdaBound", "AdamP", "AdaMod"}

NoCall == [op |-> "none", idx |-> 0, sparse |-> FALSE, raised |-> FALSE,
           step |-> 0,
           lower |-> 0, upper |-> 0, final_lr |-> 0, radicand |-> <<>>,
           wd_ratio |-> 0, view |-> "none", grad |-> <<>>,
           perturb_in |-> <<>>, perturb |-> <<>>]

NoPass == [start |-> 0, upd |-> <<>>, steps |-> {}]

Constructed(k) ==
    /\ kind = k
    /\ built = FALSE
    /\ amsbound \in (IF k = "AdaBound" THEN BOOLEAN ELSE {FALSE})
    /\ nesterov \in (IF k = "AdamP" THEN BOOLEAN ELSE {FALSE})
    /\ weight_decay \in WeightDecays
    /\ learning_rate = Scale \div 2
    /\ base_lr = "unset"
    /\ variables = <<>>
    /\ exp_avg = <<>>
    /\ exp_avg_sq = <<>>
    /\ max_exp_avg_sq = <<>>
    /\ exp_avg_lr = <<>>
    /\ step = (IF k = "AdaMod" THEN 0 ELSE <<>>)
    /\ iterations = 0
    /\ manager = 0
    /\ last = NoCall
    /\ lr_at_build = 0
    /\ calls = <<>>
    /\ pass = NoPass

Init == /\ \E k \in Kinds : Constructed(k)
        /\ pc = <<>>
        /\ tmp = <<>>

\* the value read through self.base_lr
BaseLrValue == learning_rate

Total(c) == SumSeq(c)
Bump(f, i) == [f EXCEPT ![i] = @ + 1]

\* ------------------------------------------------------------------ build
\* the state slots of var_list = the first n parameters of the host
Allocate(n) ==
    /\ built' = TRUE
    /\ variables' = [i \in 1..n |-> InitialValue(i)]
    /\ exp_avg' = [i \in 1..n |-> Zeros(Size(i))]
    /\ exp_avg_sq' = [i \in 1..n |-> Zeros(Size(i))]
    /\ calls' = [i \in 1..n |-> 0]
    /\ pass' = [start |-> 0, upd |-> [i \in 1..n |-> 0], steps |-> {}]
    /\ lr_at_build' = learning_rate

AdaBoundBuild(n) ==
    /\ kind = "AdaBound"
    /\ last' = [NoCall EXCEPT !.op = "build"]
    /\ IF built
       THEN UNCHANGED <<built, variables, exp_avg, exp_avg_sq,
                        max_exp_avg_sq, base_lr, step, calls, pass,
                        lr_at_build>>
       ELSE /\ Allocate(n)
            /\ max_exp_avg_sq' = (IF amsbound
                                  THEN [i \in 1..n |-> Zeros(Size(i))]
                                  ELSE max_exp_avg_sq)
            /\ base_lr' = "_learning_rate"
            /\ step' = [i \in 1..n |-> 0]
    /\ UNCHANGED <<kind, amsbound, weight_decay, nesterov, learning_rate,
                   exp_avg_lr, iterations, manager, pc, tmp>>

AdamPBuild(n) ==
    /\ kind = "AdamP"
    /\ last' = [NoCall EXCEPT !.op = "build"]
    /\ IF built
       THEN UNCHANGED <<built, variables, exp_avg, exp_avg_sq, step, calls,
                        pass, lr_at_build>>
       ELSE /\ Allocate(n)
            /\ step' = [i \in 1..n |-> 0]
    /\ UNCHANGED <<kind, amsbound, weight_decay, nesterov, learning_rate,
                   base_lr, max_exp_avg_sq, exp_avg_lr, iterations, manager,
                   pc, tmp>>

\* mp.Manager(): a manager other than the one held so far
NewManager(m) == IF m = 1 THEN 2 ELSE 1
\* manager.list(l): a shared list with the elements of l
\* (variant: the shared list created empty)
ManagerListEmpty(l) == <<>>
ManagerList(l) == [i \in 1..Len(l) |-> l[i]]

AdaModBuild(n) ==
    /\ kind = "AdaMod"
    /\ last' = [NoCall EXCEPT !.op = "build"]
    /\ manager' = NewManager(manager)
    /\ IF built
       THEN /\ exp_avg' = ManagerList(exp_avg)
            /\ exp_avg_sq' = ManagerList(exp_avg_sq)
            /\ exp_avg_lr' = ManagerList(exp_avg_lr)
            /\ UNCHANGED <<built, variables, step, calls, pass, lr_at_build>>
       ELSE /\ Allocate(n)
            /\ exp_avg_lr' = [i \in 1..n |-> Zeros(Size(i))]
            /\ step' = 0
    /\ UNCHANGED <<kind, amsbound, weight_decay, nesterov, learning_rate,
                   base_lr, max_exp_avg_sq, iterations, pc, tmp>>

Build == \E n \in 1..MaxVars :
            AdaBoundBuild(n) \/ AdamPBuild(n) \/ AdaModBuild(n)

\* ------------------------------------------------------------ update_step
\* a call is possible once the state exists; the model stops after
\* MaxUpdates successful calls
CanUpdate(i) == /\ built
                /\ i \in 1..Len(variables)
                /\ Total(calls) < MaxUpdates

\* self.step[self._get_variable_index(variable)] += 1
\* (variant: every counter advanced)
IncrementStepAll(st, i) == [k \in 1..Len(st) |-> st[k] + 1]
IncrementStep(st, i) == [st EXCEPT ![i] = @ + 1]

\* the raise of a sparse gradient: the call ends before it assigns anything
Raise(i) ==
    /\ last' = [NoCall EXCEPT !.op = "update_step", !.idx = i,
                              !.sparse = TRUE, !.raised = TRUE]
    /\ UNCHANGED <<variables, exp_avg, exp_avg_sq, max_exp_avg_sq,
                   exp_avg_lr, step, calls, pass>>

Counted(i) ==
    /\ calls' = Bump(calls, i)
    /\ pass' = [pass EXCEPT !.upd = Bump(@, i)]

AdaBoundApply(i, g, sparse) ==
    \E st \in {IncrementStep(step, i)} :
    \E r \in {AdaBoundRule(g, variables[i], learning_rate, BaseLrValue,
                           exp_avg[i], exp_avg_sq[i],
                           IF amsbound THEN max_exp_avg_sq[i] ELSE <<>>,
                           st[i], amsbound, weight_decay)} :
       /\ step' = st
       /\ exp_avg' = [exp_avg EXCEPT ![i] = r.exp_avg]
       /\ exp_avg_sq' = [exp_avg_sq EXCEPT ![i] = r.exp_avg_sq]
       /\ max_exp_avg_sq' = (IF amsbound
                             THEN [max_exp_avg_sq EXCEPT
                                     ![i] = r.max_exp_avg_sq]
                             ELSE max_exp_avg_sq)
       /\ variables' = [variables EXCEPT ![i] = r.variable]
       /\ last' = [NoCall EXCEPT !.op = "update_step", !.idx = i,
                     !.sparse = sparse, !.step = st[i], !.grad = g,
                     !.lower = r.lower, !.upper = r.upper,
                     !.final_lr = r.final_lr, !.radicand = r.radicand]
       /\ Counted(i)
       /\ UNCHANGED exp_avg_lr

\* (variant: no test for a sparse gradient)
AdaBoundUpdateStepNoCheck(i, g, sparse) ==
    /\ kind = "AdaBound"
    /\ CanUpdate(i)
    /\ AdaBoundApply(i, g, sparse)
    /\ UNCHANGED <<kind, built, amsbound, weight_decay, nesterov,
                   learning_rate, base_lr, iterations, manager, lr_at_build,
                   pc, tmp>>

AdaBoundUpdateStep(i, g, sparse) ==
    /\ kind = "AdaBound"
    /\ CanUpdate(i)
    /\ IF sparse THEN Raise(i) ELSE AdaBoundApply(i, g, sparse)
    /\ UNCHANGED <<kind, built, amsbound, weight_decay, nesterov,
                   learning_rate, base_lr, iterations, manager, lr_at_build,
                   pc, tmp>>

AdamPUpdateStep(i, g) ==
    /\ kind = "AdamP"
    /\ CanUpdate(i)
    /\ \E st \in {IncrementStep(step, i)} :
       \E r \in {AdamPRule(g, variables[i], Shape(i), learning_rate,
                            exp_avg[i], exp_avg_sq[i], st[i], nesterov,
                            weight_decay)} :
          /\ step' = st
          /\ exp_avg' = [exp_avg EXCEPT ![i] = r.exp_avg]
          /\ exp_avg_sq' = [exp_avg_sq EXCEPT ![i] = r.exp_avg_sq]
          /\ variables' = [variables EXCEPT ![i] = r.variable]
          /\ last' = [NoCall EXCEPT !.op = "update_step", !.idx = i,
                        !.step = st[i], !.grad = g, !.wd_ratio = r.wd_ratio,
                        !.view = r.view, !.perturb_in = r.perturb_in,
                        !.perturb = r.perturb]
    /\ Counted(i)
    /\ UNCHANGED <<kind, built, amsbound, weight_decay, nesterov,
                   learning_rate, base_lr, max_exp_avg_sq, exp_avg_lr,
                   iterations, manager, lr_at_build, pc, tmp>>

\* the sequential call of AdaMod.update_step (one call at a time)
AdaModApply(i, g) ==
    \E s \in {step + 1} :
    \E r \in {AdaModRule(g, variables[i], learning_rate, exp_avg[i],
                         exp_avg_sq[i], exp_avg_lr[i], s, weight_decay)} :
       /\ step' = s
       /\ exp_avg' = [exp_avg EXCEPT ![i] = r.exp_avg]
       /\ exp_avg_sq' = [exp_avg_sq EXCEPT ![i] = r.exp_avg_sq]
       /\ exp_avg_lr' = [exp_avg_lr EXCEPT ![i] = r.exp_avg_lr]
       /\ variables' = [variables EXCEPT ![i] = r.variable]
       /\ last' = [NoCall EXCEPT !.op = "update_step", !.idx = i,
                     !.step = s, !.grad = g]
       /\ calls' = Bump(calls, i)
       /\ pass' = [pass EXCEPT !.upd = Bump(@, i), !.steps = @ \cup {s}]
       /\ UNCHANGED max_exp_avg_sq

AdaModUpdateStep(i, g, sparse) ==
    /\ kind = "AdaMod"
    /\ CanUpdate(i)
    /\ pc = <<>>
    /\ IF sparse THEN Raise(i) ELSE AdaModApply(i, g)
    /\ UNCHANGED <<kind, built, amsbound, weight_decay, nesterov,
                   learning_rate, base_lr, iterations, manager, lr_at_build,
                   pc, tmp>>

UpdateStep == \E i \in 1..MaxVars : \E g \in Gradients(i) :
                 \/ \E sparse \in BOOLEAN : AdaBoundUpdateStep(i, g, sparse)
                 \/ AdamPUpdateStep(i, g)
                 \/ \E sparse \in BOOLEAN : AdaModUpdateStep(i, g, sparse)

\* ----------------------------------------------------------- __setstate__
\* AdaBound.__setstate__(state) with the instance's own attributes as state
\* (what unpickling a pickled instance does): only amsbound is overwritten
SetState ==
    /\ kind = "AdaBound"
    /\ amsbound' = FALSE
    /\ UNCHANGED <<last, kind, built, weight_decay, nesterov, learning_rate,
                   base_lr, variables, exp_avg, exp_avg_sq, max_exp_avg_sq,
                   exp_avg_lr, step, iterations, manager, lr_at_build, calls,
                   pass, pc, tmp>>

\* ----------------------------------------------------------------- get_config
\* the "step" entry of get_config() of AdaBound and AdamP
get_config_step == [i \in 1..Len(step) |-> iterations]

\* ------------------------------------------------------------- the host
\* the host assigns a new value to the learning-rate object
SetLearningRate(lr) ==
    /\ lr # learning_rate
    /\ learning_rate' = lr
    /\ UNCHANGED <<last, kind, built, amsbound, weight_decay, nesterov, base_lr,
                   variables, exp_avg, exp_avg_sq, max_exp_avg_sq,
                   exp_avg_lr, step, iterations, manager, lr_at_build, calls,
                   pass, pc, tmp>>

\* the host ends a training iteration in which it updated some parameters
EndIteration ==
    /\ built
    /\ \E i \in 1..Len(pass.upd) : pass.upd[i] > 0
    /\ iterations' = iterations + 1
    /\ pass' = [start |-> IF kind = "AdaMod" THEN step ELSE 0,
                upd |-> [i \in 1..Len(pass.upd) |-> 0], steps |-> {}]
    /\ UNCHANGED <<last, kind, built, amsbound, weight_decay, nesterov,
                   learning_rate, base_lr, variables, exp_avg, exp_avg_sq,
                   max_exp_avg_sq, exp_avg_lr, step, manager, lr_at_build,
                   calls, pc, tmp>>

Next == \/ Build
        \/ UpdateStep
        \/ SetState

Spec == Init /\ [][Next]_vars

\* ------------------------------------- AdaBound under a changing learning rate
\* An AdaBound instance whose host changes the learning rate between calls
\* and pickles and unpickles the optimizer (no weight decay, the default).
InitBound == /\ Constructed("AdaBound")
             /\ weight_decay = 0
             /\ pc = <<>>
             /\ tmp = <<>>

NextBound == \/ \E n \in 1..MaxVars : AdaBoundBuild(n)
             \/ \E i \in 1..MaxVars : \E g \in Gradients(i) :
                   AdaBoundUpdateStep(i, g, FALSE)
             \/ SetState
             \/ \E lr \in LearningRates : SetLearningRate(lr)

SpecBound == InitBound /\ [][NextBound]_vars

\* --------------------------------------------- the host's training loop
\* An instance with the default flags, driven by the host: build, dense
\* update_step calls, and the end of each training iteration.
InitTrain == /\ Init
             /\ weight_decay = 0
             /\ ~amsbound
             /\ ~nesterov

DenseUpdateStep == \E i \in 1..MaxVars : \E g \in Gradients(i) :
                      \/ AdaBoundUpdateStep(i, g, FALSE)
                      \/ AdamPUpdateStep(i, g)
                      \/ AdaModUpdateStep(i, g, FALSE)

NextTrain == \/ Build
             \/ DenseUpdateStep
             \/ EndIteration

SpecTrain == InitTrain /\ [][NextTrain]_vars

\* ------------------------------------- concurrent AdaMod.update_step calls
\* Worker w runs update_step for parameter w.  self.step += 1 (line 88) is a
\* read of self.step followed by a write; lines 91-110 then read self.step
\* again for the bias corrections.
NoLocals == [t |-> 0, g |-> <<>>, bc |-> 0]

InitConc == /\ Constructed("AdaMod")
            /\ pc = [w \in 1..MaxWorkers |-> "idle"]
            /\ tmp = [w \in 1..MaxWorkers |-> NoLocals]

ConcBuild == /\ ~built
             /\ AdaModBuild(MaxWorkers)

\* lines 78-88, first half: the call enters and reads self.step
Load(w, g) ==
    /\ built
    /\ pc[w] = "idle"
    /\ pc' = [pc EXCEPT ![w] = "loaded"]
    /\ tmp' = [tmp EXCEPT ![w] = [t |-> step, g |-> g, bc |-> 0]]
    /\ UNCHANGED <<kind, built, amsbound, weight_decay, nesterov,
                   learning_rate, base_lr, variables, exp_avg, exp_avg_sq,
                   max_exp_avg_sq, exp_avg_lr, step, iterations, manager,
                   last, lr_at_build, calls, pass>>

\* line 88, second half: the call writes self.step
Store(w) ==
    /\ pc[w] = "loaded"
    /\ step' = tmp[w].t + 1
    /\ pc' = [pc EXCEPT ![w] = "stored"]
    /\ UNCHANGED <<kind, built, amsbound, weight_decay, nesterov,
                   learning_rate, base_lr, variables, exp_avg, exp_avg_sq,
                   max_exp_avg_sq, exp_avg_lr, iterations, manager, last,
                   lr_at_build, calls, pass, tmp>>

\* lines 91-110
Finish(w) ==
    /\ pc[w] = "stored"
    /\ \E r \in {AdaModRule(tmp[w].g, variables[w], learning_rate,
                            exp_avg[w], exp_avg_sq[w], exp_avg_lr[w], step,
                            weight_decay)} :
          /\ exp_avg' = [exp_avg EXCEPT ![w] = r.exp_avg]
          /\ exp_avg_sq' = [exp_avg_sq EXCEPT ![w] = r.exp_avg_sq]
          /\ exp_avg_lr' = [exp_avg_lr EXCEPT ![w] = r.exp_avg_lr]
          /\ variables' = [variables EXCEPT ![w] = r.variable]
    /\ tmp' = [tmp EXCEPT ![w].bc = step]
    /\ pc' = [pc EXCEPT ![w] = "done"]
    /\ calls' = Bump(calls, w)
    /\ UNCHANGED <<kind, built, amsbound, weight_decay, nesterov,
                   learning_rate, base_lr, max_exp_avg_sq, step, iterations,
                   manager, last, lr_at_build, pass>>

NextConc == \/ ConcBuild
            \/ \E w \in 1..MaxWorkers : \E g \in Gradients(w) : Load(w, g)
            \/ \E w \in 1..MaxWorkers : Store(w)
            \/ \E w \in 1..MaxWorkers : Finish(w)

SpecConc == InitConc /\ [][NextConc]_vars

\* ================================================================ properties
ListKind == kind \in {"AdaBound", "AdamP"}
Succeeded == last.op = "update_step" /\ ~last.raised

\* C1: an update_step call of AdaBound or AdaMod whose gradient is sparse
\* raises and leaves every accumulator, every step counter and every parameter
\* value as it was.
C1_SparseLeavesState ==
    [][\A i \in 1..MaxVars : \A g \in Gradients(i) :
          (AdaBoundUpdateStep(i, g, TRUE) \/ AdaModUpdateStep(i, g, TRUE))
          => /\ last'.raised
             /\ UNCHANGED <<variables, exp_avg, exp_avg_sq, max_exp_avg_sq,
                            exp_avg_lr, step>>]_vars

C1_Witness == /\ last.op = "update_step"
              /\ last.sparse
              /\ last.raised
              /\ Total(calls) >= 1

\* C2: for AdaBound and AdamP a successful update_step of parameter i adds
\* exactly 1 to step[i] and leaves the other counters alone, so every counter
\* never decreases and equals the number of successful calls for its
\* parameter.
C2_StepCountsCalls ==
    /\ []((ListKind /\ built)
            => \A i \in 1..Len(step) : step[i] = calls[i] /\ step[i] >= 0)
    /\ [][(ListKind /\ built)
            => \A i \in 1..Len(step) :
                  /\ step'[i] >= step[i]
                  /\ step'[i] = step[i] + (IF calls'[i] # calls[i] THEN 1
                                           ELSE 0)]_vars

C2_Witness == /\ ListKind
              /\ built
              /\ \E i \in 1..Len(step) : step[i] >= 2
              /\ \E j \in 1..Len(step) : step[j] = 0

\* C3 (as claimed): in AdaMod an iteration that updates each of the N
\* parameters once raises the shared counter by 1, and all its updates use the
\* same step value for the bias corrections.
C3_OncePerIteration ==
    (/\ kind = "AdaMod"
     /\ built
     /\ \A i \in 1..Len(pass.upd) : pass.upd[i] = 1)
    => /\ step = pass.start + 1
       /\ Cardinality(pass.steps) = 1

\* C4: a build call on a built optimizer leaves the number of state slots,
\* every accumulator, every step counter and base_lr as they were.
BuildCall == \E n \in 1..MaxVars :
                AdaBoundBuild(n) \/ AdamPBuild(n) \/ AdaModBuild(n)

C4_BuildIdempotent ==
    [][(built /\ BuildCall)
         => /\ Len(exp_avg') = Len(exp_avg)
            /\ UNCHANGED <<built, exp_avg, exp_avg_sq, max_exp_avg_sq,
                           exp_avg_lr, step, base_lr, variables>>]_vars

C4_Witness == /\ last.op = "build"
              /\ kind = "AdaMod"
              /\ Total(calls) >= 1
              /\ \E i \in 1..Len(exp_avg) : exp_avg[i] # Zeros(Size(i))

\* C5 (as claimed): the i-th entry of get_config()["step"] of AdaBound and
\* AdamP is the step counter of the i-th parameter.
C5_ConfigStep ==
    (ListKind /\ built)
    => \A i \in 1..Len(step) : get_config_step[i] = step[i]

\* C6 (as claimed): when the update_step calls of different parameters
\* interleave, no increment of AdaMod's counter is lost and no two calls use
\* the same counter value for their bias corrections.
C6_NoLostIncrement ==
    (pc # <<>> /\ \A w \in 1..Len(pc) : pc[w] = "done")
    => /\ step = Len(pc)
       /\ \A v, w \in 1..Len(pc) : v # w => tmp[v].bc # tmp[w].bc

\* C7: with lr, gamma, final_lr and base_lr fixed and positive, lower_bound
\* does not decrease and upper_bound does not increase as step grows,
\* lower_bound <= upper_bound for every step >= 1, and update_step computes
\* its bounds from a step that is at least 1.
Steps == 1..(4 * MaxUpdates)

C7_BoundsMonotone ==
    /\ \A lr \in LearningRates : \A s \in Steps :
            LET f == FinalLr(lr, BaseLrValue)
            IN /\ LowerBound(f, s) <= LowerBound(f, s + 1)
               /\ UpperBound(f, s) >= UpperBound(f, s + 1)
               /\ LowerBound(f, s) <= UpperBound(f, s)
    /\ (kind = "AdaBound" /\ Succeeded)
         => /\ last.step >= 1
            /\ last.lower = LowerBound(last.final_lr, last.step)
            /\ last.upper = UpperBound(last.final_lr, last.step)
            /\ last.lower <= last.upper

C7_Witness == /\ kind = "AdaBound"
              /\ Succeeded
              /\ last.step >= 2
              /\ 0 < last.lower
              /\ last.lower < last.upper

\* C8: AdamP projects only parameters of at least 2 dimensions; the channel
\* view is tested first and the first view under its threshold decides
\* (perturb loses its component along the parameter, the factor is wd_ratio);
\* otherwise perturb is unchanged and the factor is 1; that factor is the one
\* used in the multiplicative weight decay.
C8_ProjectionDispatch ==
    [][\A i \in 1..MaxVars : \A g \in Gradients(i) :
          AdamPUpdateStep(i, g)
          => LET p == variables[i]
                 sh == Shape(i)
                 pin == last'.perturb_in
                 ch == ViewTriggers("channel", p, g, sh, delta, epsilon)
                 ly == ViewTriggers("layer", p, g, sh, delta, epsilon)
                 step_size == Div(learning_rate,
                                  bias_correction(beta1, step'[i]))
             IN /\ Len(sh) < 2
                     => last'.perturb = pin /\ last'.wd_ratio = Scale
                /\ (Len(sh) >= 2 /\ ch)
                     => /\ last'.perturb
                             = RemoveParallel("channel", p, pin, sh, epsilon)
                        /\ last'.wd_ratio = wd_ratio
                /\ (Len(sh) >= 2 /\ ~ch /\ ly)
                     => /\ last'.perturb
                             = RemoveParallel("layer", p, pin, sh, epsilon)
                        /\ last'.wd_ratio = wd_ratio
                /\ (Len(sh) >= 2 /\ ~ch /\ ~ly)
                     => last'.perturb = pin /\ last'.wd_ratio = Scale
                /\ weight_decay > 0
                     => variables'[i]
                          = [k \in 1..Len(p) |->
                               Mul(p[k], Scale - Mul(Mul(learning_rate,
                                                         weight_decay),
                                                     last'.wd_ratio))
                               + Mul(last'.perturb[k], -step_size)]]_vars

C8_Witness == /\ kind = "AdamP"
              /\ Succeeded
              /\ weight_decay > 0
              /\ last.view = "layer"
              /\ last.perturb # last.perturb_in

\* C9 (as claimed): after build, base_lr keeps the learning-rate value of
\* build time, whatever the learning rate is changed to later.
C9_BaseLrFixed ==
    (kind = "AdaBound" /\ built) => BaseLrValue = lr_at_build

\* C10 (as claimed): for an AdaBound instance constructed with amsbound, after
\* every update_step the parameter's max_exp_avg_sq is elementwise at least
\* its former value and at least exp_avg_sq, and the denominator is taken
\* from max_exp_avg_sq.
C10_MaxDominates ==
    (kind = "AdaBound" /\ max_exp_avg_sq # <<>> /\ Succeeded)
    => /\ \A k \in 1..Size(last.idx) :
             max_exp_avg_sq[last.idx][k] >= exp_avg_sq[last.idx][k]
       /\ last.radicand = max_exp_avg_sq[last.idx]
====
